---- MODULE Spec2Model ----
(***************************************************************************)
(* Model of the resumable scraper of src/scraper.py (class ECIScraper and  *)
(* main): the per-unit CSV directory "constituency_results", the combined  *)
(* (master) CSV, the in-memory all_data list, the Completion Tracker       *)
(* get_completed_constituencies and the driver loop scrape_all, with the   *)
(* KeyboardInterrupt / Exception handlers of main.                          *)
(*                                                                         *)
(* File names and CSV cell texts are sequences of one-character strings so *)
(* that formatting and parsing are computed, not assumed.                  *)
(***************************************************************************)
EXTENDS Integers, Sequences, FiniteSets, TLC

\* ------------------------------------------------------------------ bounds
TotalUnits == 3      \* --total of the modelled invocations
MaxRecs    == 2      \* most data rows the Extractor returns for one unit
MaxRuns    == 2      \* processes started in one behaviour
MaxStart   == 2      \* largest --start-from tried
MaxFaults  == 1      \* file writes that raise or are cut short in one behaviour
MaxNameLen == 2      \* longest constituency name of the file name scenarios
MaxListing == 3      \* most rows of the state table of the 2020 scraper
MaxCands   == 2      \* most candidate rows of a 2020 constituency page
MaxLimit   == 2      \* largest --limit of the 2020 scraper

Units == 1..TotalUnits

\* ------------------------------------------------------- text primitives
DigitChars == <<"0", "1", "2", "3", "4", "5", "6", "7", "8", "9">>

IsDigit(c) == \E d \in 1..10 : DigitChars[d] = c

DigitVal(c) == (CHOOSE d \in 1..10 : DigitChars[d] = c) - 1

\* str(n) for n >= 0
RECURSIVE Digits(_)
Digits(n) == IF n < 10 THEN <<DigitChars[n + 1]>>
             ELSE Digits(n \div 10) \o <<DigitChars[(n % 10) + 1]>>

\* f"{n:03d}": sign, then the digits zero-padded so that the whole field is
\* at least three characters wide
RECURSIVE ZeroPad(_, _)
ZeroPad(s, w) == IF Len(s) >= w THEN s ELSE ZeroPad(<<"0">> \o s, w)

Fmt03d(n) == IF n < 0 THEN <<"-">> \o ZeroPad(Digits(0 - n), 2)
             ELSE ZeroPad(Digits(n), 3)

\* str.replace(old, new) for one-character old and new
StrReplace(s, old, new) == [i \in 1..Len(s) |-> IF s[i] = old THEN new ELSE s[i]]

\* str.endswith
EndsWith(s, suf) ==
    /\ Len(s) >= Len(suf)
    /\ \A i \in 1..Len(suf) : s[Len(s) - Len(suf) + i] = suf[i]

\* str.split(sep)[0]: the text before the first separator, or all of it
RECURSIVE SplitFirst(_, _)
SplitFirst(s, sep) == IF s = <<>> \/ Head(s) = sep THEN <<>>
                      ELSE <<Head(s)>> \o SplitFirst(Tail(s), sep)

\* str.strip() for blanks
RECURSIVE LStrip(_)
LStrip(s) == IF s # <<>> /\ Head(s) = " " THEN LStrip(Tail(s)) ELSE s

RECURSIVE RStrip(_)
RStrip(s) == IF s # <<>> /\ s[Len(s)] = " " THEN RStrip(SubSeq(s, 1, Len(s) - 1)) ELSE s

RECURSIVE DigitsValue(_, _)
DigitsValue(s, acc) == IF s = <<>> THEN acc
                       ELSE DigitsValue(Tail(s), acc * 10 + DigitVal(Head(s)))

\* int(text): blanks stripped, optional sign, one or more decimal digits;
\* anything else raises ValueError (ok = FALSE)
PyInt(text) ==
    LET s    == RStrip(LStrip(text))
        sgn  == s # <<>> /\ Head(s) \in {"-", "+"}
        body == IF sgn THEN Tail(s) ELSE s
    IN  IF body # <<>> /\ \A i \in 1..Len(body) : IsDigit(body[i])
        THEN [ok |-> TRUE,
              val |-> IF sgn /\ Head(s) = "-" THEN 0 - DigitsValue(body, 0)
                      ELSE DigitsValue(body, 0)]
        ELSE [ok |-> FALSE, val |-> 0]

CsvExt == <<".", "c", "s", "v">>

\* ------------------------------------------------- per-unit file names
\* safe_name of save_constituency_data
SafeName(name) == StrReplace(StrReplace(StrReplace(name, " ", "_"), "/", "-"), "\\", "-")

\* faulty variant: f"{safe_name}_{constituency_num:03d}.csv"
UnitFileName_nameFirst(num, name) == SafeName(name) \o <<"_">> \o Fmt03d(num) \o CsvExt

\* base name of the file save_constituency_data writes
UnitFileName(num, name) == Fmt03d(num) \o <<"_">> \o SafeName(name) \o CsvExt

\* ------------------------------------------------------ the Extractor
\* constituency_name when the h2 lookup fails
DefaultName(num) ==
    <<"C", "o", "n", "s", "t", "i", "t", "u", "e", "n", "c", "y", "_">> \o Digits(num)

\* constituency_name parsed from "Assembly Constituency <n> - <NAME> (Bihar)"
PageName(num) ==
    Digits(num) \o <<" ", "-", " ">> \o
    (IF num % 2 = 0 THEN <<"B", "/", "C">> ELSE <<"A", " ", "D">>)

\* text of the percentage cell of data row j
PctText(num, j) == IF j % 2 = 1 THEN <<"7", ".", "5", "0">> ELSE <<"2", ".", "5">>

\* the pages whose h2 heading names the constituency (lines 118-133)
PageHasName(num) == num % 3 # 0

\* what one page load of a live driver can do: TimeoutException, another
\* exception, a table without data rows, or a table with n data rows
Outcomes ==
    {[kind |-> k, n |-> 0] : k \in {"timeout", "error", "norows"}}
    \cup {[kind |-> "rows", n |-> n] : n \in 1..MaxRecs}

\* the browser behind the driver dies during the page load: driver.get
\* raises a WebDriverException, as does every later call on that driver
Crash == [kind |-> "crash", n |-> 0]

FetchOutcomes == Outcomes \cup {Crash}

\* a scraped cell is a Python str
StrCell(text) == [t |-> "str", s |-> text]

\* return value of scrape_constituency for the page behaviour o
scrape_constituency(num, o) ==
    IF o.kind = "rows"
    THEN [j \in 1..o.n |->
            [Constituency_Number |-> num,
             Constituency_Name   |-> IF PageHasName(num) THEN PageName(num)
                                     ELSE DefaultName(num),
             Serial_No           |-> j,
             Percentage          |-> StrCell(PctText(num, j))]]
    ELSE <<>>

\* ------------------------------------------------- CSV write and read
\* repr of the float read_csv infers from a decimal text: trailing zeros of
\* the fraction are dropped, one fraction digit is kept
RECURSIVE FloatRepr(_)
FloatRepr(s) == IF Len(s) >= 3 /\ s[Len(s)] = "0" /\ s[Len(s) - 1] # "."
                THEN FloatRepr(SubSeq(s, 1, Len(s) - 1)) ELSE s

HasDot(s) == \E i \in 1..Len(s) : s[i] = "."

\* read_csv of one cell of the Percentage column
ParseCell(text) == [t |-> "num", s |-> IF HasDot(text) THEN FloatRepr(text) ELSE text]

\* to_csv of one cell
CellText(cell) == cell.s

ToCsvRow(rec) == [Constituency_Number |-> rec.Constituency_Number,
                  Constituency_Name   |-> rec.Constituency_Name,
                  Serial_No           |-> rec.Serial_No,
                  Percentage          |-> CellText(rec.Percentage)]

FromCsvRow(row) == [Constituency_Number |-> row.Constituency_Number,
                    Constituency_Name   |-> row.Constituency_Name,
                    Serial_No           |-> row.Serial_No,
                    Percentage          |-> ParseCell(row.Percentage)]

\* pd.DataFrame(records).to_csv: the rows of the file, in order
ToCsv(records) == [i \in 1..Len(records) |-> ToCsvRow(records[i])]

\* pd.read_csv(...).to_dict('records')
ReadCsv(rows) == [i \in 1..Len(rows) |-> FromCsvRow(rows[i])]

NoFile == [exists |-> FALSE, readable |-> FALSE, rows |-> <<>>]

WrittenFile(rows) == [exists |-> TRUE, readable |-> TRUE, rows |-> rows]

\* what a write that dies part-way can leave behind: the old file (the
\* open failed) or a file truncated to some complete rows, the tail either
\* cleanly cut or torn so that read_csv raises
TornWrites(old, rows) ==
    {old} \cup {[exists |-> TRUE, readable |-> r, rows |-> SubSeq(rows, 1, k)] :
                  k \in 0..(Len(rows) - 1), r \in BOOLEAN}

\* ------------------------------------------------ Completion Tracker
\* every order in which os.listdir may return the names of S
RECURSIVE Listings(_)
Listings(S) == IF S = {} THEN {<<>>}
               ELSE UNION {{<<f>> \o l : l \in Listings(S \ {f})} : f \in S}

\* the for loop over the listing (lines 68-72): a name whose leading token
\* is not an integer raises inside the try, which ends the loop
RECURSIVE ScanFiles(_, _, _)
ScanFiles(files, i, acc) ==
    IF i > Len(files) THEN [completed |-> acc, raised |-> FALSE]
    ELSE IF EndsWith(files[i], CsvExt)
         THEN LET p == PyInt(SplitFirst(files[i], "_"))
              IN  IF p.ok THEN ScanFiles(files, i + 1, acc \cup {p.val})
                  ELSE [completed |-> acc, raised |-> TRUE]
         ELSE ScanFiles(files, i + 1, acc)

\* set(df['Constituency_Number'].unique()) of the master CSV (lines 78-85)
MasterUnits(m) ==
    IF ~m.exists THEN [completed |-> {}, raised |-> FALSE]
    ELSE IF m.readable
         THEN [completed |-> {m.rows[i].Constituency_Number : i \in 1..Len(m.rows)},
               raised |-> FALSE]
         ELSE [completed |-> {}, raised |-> TRUE]

\* a missing directory and an empty one both contribute nothing
get_completed_constituencies(listing, m) ==
    LET a == ScanFiles(listing, 1, {})
        b == MasterUnits(m)
    IN  [completed |-> a.completed \cup b.completed,
         warned    |-> a.raised \/ b.raised]

\* ------------------------------------------------------------ the Sink
\* faulty variant: to_csv(..., mode='a')
save_data_append(data, m) ==
    IF data # <<>> THEN WrittenFile(m.rows \o ToCsv(data)) ELSE m

\* faulty variant: the write is left out
save_data_skip(data, m) == m

\* save_data: the master file after the call returns normally
save_data(data, m) == IF data # <<>> THEN WrittenFile(ToCsv(data)) ELSE m

\* save_data raising part-way: the files it can leave
save_data_failures(data, m) == IF data # <<>> THEN TornWrites(m, ToCsv(data)) ELSE {}

PutFile(d, name, rows) ==
    [f \in (DOMAIN d) \cup {name} |-> IF f = name THEN rows ELSE d[f]]

\* save_constituency_data: the directory after the call returns normally
save_constituency_data(d, data, num, name) ==
    IF data # <<>> THEN PutFile(d, UnitFileName(num, name), ToCsv(data)) ELSE d

\* save_constituency_data raising part-way: nothing created, or the file
\* truncated to some rows
save_constituency_data_failures(d, data, num, name) ==
    {d} \cup {PutFile(d, UnitFileName(num, name), SubSeq(ToCsv(data), 1, k)) :
                k \in 0..(Len(data) - 1)}

\* ------------------------------------------------------------- state
VARIABLES
    dir,               \* constituency_results/: file name -> rows
    master,            \* the combined CSV (self.output_file)
    pc,                \* where the running process is; "idle" = none
    mode,              \* "all" (--all), "single" (--constituency), "none"
    start_from,        \* --start-from of the running process
    all_data,          \* self.all_data
    completed,         \* the local set `completed` of scrape_all
    constituency_num,  \* loop variable of scrape_all
    constituency_data, \* result of the current scrape_constituency call
    exit,              \* how the last process ended
    runs,              \* processes started so far
    invoked,           \* units passed to scrape_constituency, in order
    ret,               \* unit -> length of what scrape_constituency returned,
                       \*         -1 before the call
    errored,           \* units whose page load raised (lines 196-201)
    persisted,         \* units whose two writes both returned
    failed,            \* units one of whose writes raised an I/O error
    flushFailed,       \* the save_data of a handler of main raised
    master0,           \* the master file when the process started
    empty0,            \* there was no artifact when the process started
    warned,            \* the Tracker logged a warning
    faults,            \* writes that raised or were cut short so far
    page,              \* unit -> what its page does when the site is stable
    prev,              \* the history of the previous process
    crashed,           \* unit during whose page load the driver died, 0 if none
    slept,             \* units after whose Extractor call line 271 slept
    summary,           \* what generate_summary printed
    driver             \* calls made on the browser of the running process,
                       \* in order

\* ------------------------------------ 2020/constituency_scraper.py
\* seq[:k] of Python
PySliceTo(s, k) ==
    IF k >= 0 THEN SubSeq(s, 1, IF k < Len(s) THEN k ELSE Len(s))
    ELSE SubSeq(s, 1, IF Len(s) + k > 0 THEN Len(s) + k ELSE 0)

\* texts the first cell of a row of the state table may hold: a number or
\* nothing
NumTexts == {Digits(n) : n \in 1..MaxStart} \cup {<<>>}

\* what get_constituency_links may return: one entry per table row it could
\* read, each with the link of its row
Links ==
    UNION {{[i \in 1..n |-> [number |-> f[i], url |-> i]] : f \in [1..n -> NumTexts]} :
             n \in 0..MaxListing}

\* line 232 raises ValueError: some number is not an integer
FilterRaises(cs) == \E i \in 1..Len(cs) : ~PyInt(cs[i].number).ok

\* line 232: [c for c in constituencies if int(c['number']) >= start_from]
FilterFrom(cs, sf) ==
    LET Keep(c) == PyInt(c.number).val >= sf
    IN  SelectSeq(cs, Keep)

\* lines 235-236: `if limit: constituencies = constituencies[:limit]`; a
\* limit of None or 0 is no limit
apply_limit(cs, lim) == IF lim # 0 THEN PySliceTo(cs, lim) ELSE cs

\* what loading one constituency page can do: raise (raised), or show n
\* candidate rows
DetailOutcomes ==
    {[raised |-> TRUE, n |-> 0]} \cup {[raised |-> FALSE, n |-> n] : n \in 0..MaxCands}

\* scrape_constituency_details (lines 102-198): None (the empty sequence)
\* when the page load raised, else the dict of the constituency with its
\* candidates
scrape_constituency_details(const, o) ==
    IF o.raised THEN <<>>
    ELSE <<[Constituency_Number |-> const.number,
            URL |-> const.url,
            Candidates |-> [k \in 1..o.n |-> [Position |-> k]]]>>

\* the rows flatten_data_for_csv builds from one constituency
ConstRows(const) ==
    [k \in 1..Len(const.Candidates) |->
        [Constituency_Number |-> const.Constituency_Number,
         Position |-> const.Candidates[k].Position]]

\* faulty variant: one row per constituency
RECURSIVE flatten_data_for_csv_first(_)
flatten_data_for_csv_first(data) ==
    IF data = <<>> THEN <<>>
    ELSE (IF Head(data).Candidates = <<>> THEN <<>>
          ELSE <<ConstRows(Head(data))[1]>>)
         \o flatten_data_for_csv_first(Tail(data))

\* flatten_data_for_csv (lines 200-221): a constituency without candidates
\* is passed over, every candidate of the others gives one row
RECURSIVE flatten_data_for_csv(_)
flatten_data_for_csv(data) ==
    IF data = <<>> THEN <<>>
    ELSE (IF Head(data).Candidates = <<>> THEN <<>> ELSE ConstRows(Head(data)))
         \o flatten_data_for_csv(Tail(data))

\* a file an earlier run of the 2020 scraper wrote
OldOutput == WrittenFile(<<[Constituency_Number |-> <<"9">>, Position |-> 1]>>)

VARIABLES
    pc2020,            \* where BiharConstituencyScraper.run is; "idle" = not
                       \* called, "done" = it returned or raised
    limit,             \* argument limit of run, 0 for None
    start_from_2020,   \* argument start_from of run
    constituencies,    \* the local list `constituencies` of run
    idx,               \* loop variable of line 244
    all_const_data,    \* the local list `all_const_data` of run
    output_file,       \* the CSV self.output_file of the 2020 scraper
    exit2020,          \* how run ended
    links,           \* what get_constituency_links returned
    attempted,         \* links passed to scrape_constituency_details, in order
    returned,          \* number of candidates each such call returned, -1
                       \* for None
    writes,            \* to_csv calls of run so far
    output0            \* the output file when run was called

bihar == <<pc2020, limit, start_from_2020, constituencies, idx,
           all_const_data, output_file, exit2020, links, attempted,
           returned, writes, output0>>

\* run has not been called
InitBihar ==
    /\ pc2020 = "idle"
    /\ limit = 0
    /\ start_from_2020 = 1
    /\ constituencies = <<>>
    /\ idx = 1
    /\ all_const_data = <<>>
    /\ exit2020 = "none"
    /\ links = <<>>
    /\ attempted = <<>>
    /\ returned = <<>>
    /\ writes = 0
    /\ output0 = output_file

\* the 2020 scraper is not run and has written nothing
NoRun2020 == output_file = NoFile /\ InitBihar

fsys  == <<dir, master>>
proc  == <<pc, mode, start_from, all_data, completed, constituency_num,
           constituency_data, exit>>
hist  == <<runs, invoked, ret, errored, persisted, failed, flushFailed,
           master0, empty0, warned, faults, page, prev>>
aux   == <<crashed, slept, summary>>
vars  == <<fsys, proc, hist, aux, driver, bihar>>

NoRet == [u \in Units |-> -1]

NoPrev == [clean |-> FALSE, start_from |-> 0, resumeAt |-> 0, failed |-> {},
           zero |-> {}]

\* nothing printed: generate_summary was not called, or returned at line 327
NoSummary == [printed |-> FALSE, records |-> 0, units |-> 0]

\* generate_summary (lines 323-345): "Total Records" and "Constituencies
\* Scraped" of the printed report
generate_summary(data) ==
    IF data = <<>> THEN NoSummary
    ELSE [printed |-> TRUE,
          records |-> Len(data),
          units   |-> Cardinality({data[i].Constituency_Number : i \in 1..Len(data)})]

\* units for which the Extractor returned at least one record in this run
Got == {u \in Units : ret[u] > 0}

\* no write of the process raised or was cut short
NoWriteFault == failed = {} /\ ~flushFailed

\* what a following process remembers of the process that has just ended:
\*   clean     it was a scrape_all that ran to its end without a write fault
\*   resumeAt  k+1 when it was a scrape_all over empty artifacts from unit 1
\*             that fetched and persisted exactly the units 1..k and was then
\*             interrupted; 0 otherwise
\*   failed    the units one of whose writes raised
\*   zero      the units for which the Extractor returned nothing
Journal ==
    [clean      |-> (mode = "all" /\ exit = "normal" /\ NoWriteFault),
     start_from |-> start_from,
     resumeAt   |-> IF /\ mode = "all" /\ exit = "interrupt" /\ NoWriteFault
                       /\ empty0 /\ start_from = 1
                       /\ Got = 1..Len(invoked) /\ persisted = Got
                    THEN Len(invoked) + 1 ELSE 0,
     failed     |-> IF mode = "all" THEN failed ELSE {},
     zero       |-> IF mode = "all" THEN {u \in Units : ret[u] = 0} ELSE {}]

\* no browser: create_driver has not been called
NoDriver == <<>>

\* lines 54-57: a new browser
create_driver == <<"create">>

\* line 108: the page load of scrape_constituency
driver_get(d) == Append(d, "get")

\* faulty variant: the finally clause does nothing
driver_quit_skip(d) == d

\* lines 281-282 and 320-321: `finally: driver.quit()`
driver_quit(d) == Append(d, "quit")

\* lines 248-280: the scrape_all process is inside the try statement
InTry == pc \in {"loop", "fetched", "unit_saved", "extended"}

\* everything but the site
InitProgram ==
    /\ dir = <<>>
    /\ master = NoFile
    /\ pc = "idle"
    /\ mode = "none"
    /\ start_from = 1
    /\ all_data = <<>>
    /\ completed = {}
    /\ constituency_num = 1
    /\ constituency_data = <<>>
    /\ exit = "none"
    /\ runs = 0
    /\ invoked = <<>>
    /\ ret = NoRet
    /\ errored = {}
    /\ persisted = {}
    /\ failed = {}
    /\ flushFailed = FALSE
    /\ master0 = NoFile
    /\ empty0 = TRUE
    /\ warned = FALSE
    /\ faults = 0
    /\ prev = NoPrev
    /\ crashed = 0
    /\ slept = {}
    /\ summary = NoSummary
    /\ driver = NoDriver

NoRows == [kind |-> "norows", n |-> 0]

\* a site whose pages may answer differently on every load: `page` is not
\* consulted (see Next)
Init == InitProgram /\ page = [u \in Units |-> NoRows] /\ NoRun2020

\* a site every page of which answers the same way on every load
InitDet == InitProgram /\ page \in [Units -> Outcomes] /\ NoRun2020

\* ------------------------------------------------------ main, --all
Running == pc # "idle"

\* main builds the scraper (all_data = []) and calls scrape_all
StartAll(sf) ==
    /\ pc = "idle"
    /\ runs < MaxRuns
    /\ pc' = "started"
    /\ mode' = "all"
    /\ start_from' = sf
    /\ all_data' = <<>>
    /\ completed' = {}
    /\ constituency_num' = sf
    /\ constituency_data' = <<>>
    /\ exit' = "none"
    /\ runs' = runs + 1
    /\ invoked' = <<>>
    /\ ret' = NoRet
    /\ errored' = {}
    /\ persisted' = {}
    /\ failed' = {}
    /\ flushFailed' = FALSE
    /\ master0' = master
    /\ empty0' = (~master.exists /\ DOMAIN dir = {})
    /\ warned' = FALSE
    /\ prev' = IF mode = "none" THEN NoPrev ELSE Journal
    /\ crashed' = 0
    /\ slept' = {}
    /\ summary' = NoSummary
    /\ driver' = NoDriver
    /\ UNCHANGED <<fsys, faults, page>>
    /\ UNCHANGED bihar

\* faulty variant: the Tracker also loads the master file into all_data
CheckCompleted_loads ==
    /\ pc = "started"
    /\ \E listing \in Listings(DOMAIN dir) :
         LET r == get_completed_constituencies(listing, master)
         IN  /\ completed' = r.completed
             /\ warned' = r.warned
    /\ all_data' = IF master.exists THEN ReadCsv(master.rows) ELSE <<>>
    /\ pc' = "checked"
    /\ UNCHANGED <<fsys, mode, start_from, constituency_num,
                   constituency_data, exit, runs, invoked, ret, errored,
                   persisted, failed, flushFailed, master0, empty0, faults,
                   prev, page, aux, driver, bihar>>

\* line 235: completed = self.get_completed_constituencies()
CheckCompleted ==
    /\ pc = "started"
    /\ \E listing \in Listings(DOMAIN dir) :
         LET r == get_completed_constituencies(listing, master)
         IN  /\ completed' = r.completed
             /\ warned' = r.warned
    /\ pc' = "checked"
    /\ UNCHANGED <<fsys, mode, start_from, all_data, constituency_num,
                   constituency_data, exit, runs, invoked, ret, errored,
                   persisted, failed, flushFailed, master0, empty0, faults,
                   prev, page, aux, driver, bihar>>

\* lines 238-244: the records of the master file, or nothing when it is
\* missing or read_csv raises
load_existing(m) == IF m.exists /\ m.readable THEN ReadCsv(m.rows) ELSE <<>>

LoadExisting ==
    /\ pc = "checked"
    /\ all_data' = load_existing(master)
    /\ pc' = "loaded"
    /\ UNCHANGED <<fsys, mode, start_from, completed, constituency_num,
                   constituency_data, exit, hist, aux, driver, bihar>>

\* line 246, the driver starts
CreateDriver ==
    /\ pc = "loaded"
    /\ pc' = "loop"
    /\ driver' = create_driver
    /\ UNCHANGED <<fsys, mode, start_from, all_data, completed,
                   constituency_num, constituency_data, exit, hist, aux>>
    /\ UNCHANGED bihar

\* faulty variant: the handler does not save
flush_none(data, m) == m

\* lines 436-437 and 442-443: `if args.all: scraper.save_data()`
flush(data, m) == save_data(data, m)

\* a handler of main (lines 433-444): save_data, which returns or raises,
\* and the process ends
Handler(how) ==
    /\ pc' = "idle"
    /\ exit' = how
    /\ \/ /\ master' = flush(all_data, master)
          /\ UNCHANGED <<flushFailed, faults, page>>
       \/ /\ faults < MaxFaults
          /\ master' \in save_data_failures(all_data, master)
          /\ flushFailed' = TRUE
          /\ faults' = faults + 1

\* line 246 raising: the Exception handler of main
CreateDriverFails ==
    /\ pc = "loaded"
    /\ Handler("fatal")
    /\ UNCHANGED <<dir, mode, start_from, all_data, completed,
                   constituency_num, constituency_data, runs, invoked, ret,
                   errored, persisted, failed, master0, empty0, warned, prev,
                   page, aux, driver, bihar>>

InRange == constituency_num <= TotalUnits

\* faulty variant: the membership test of line 251 never succeeds
AlreadyCompleted_never(num, done) == FALSE

\* line 251
AlreadyCompleted(num, done) == num \in done

\* lines 251-253
Skip ==
    /\ pc = "loop"
    /\ InRange
    /\ AlreadyCompleted(constituency_num, completed)
    /\ constituency_num' = constituency_num + 1
    /\ UNCHANGED <<fsys, pc, mode, start_from, all_data, completed,
                   constituency_data, exit, hist, aux, driver, bihar>>

\* the page load raised inside scrape_constituency
Raised(o) == o.kind \in {"timeout", "error", "crash"}

\* what a page load can do on this driver: once the browser has died every
\* driver.get raises
Loadable(o) == IF crashed = 0 THEN TRUE ELSE o.kind = "error"

\* faulty variant: an empty result leaves the loop (break)
AfterEmpty_break(num) == TotalUnits + 1

\* faulty variant: an empty result is tried again
AfterEmpty_retry(num) == num

\* lines 259 and 271: with an empty result the loop body falls through to
\* the sleep and the for statement takes the next unit
AfterEmpty(num) == num + 1

\* lines 257-259 and 271: the Extractor call, which catches whatever the
\* page load raises (lines 196-201); an empty result sleeps and goes on to
\* the next unit
Fetch(o) ==
    /\ pc = "loop"
    /\ InRange
    /\ ~AlreadyCompleted(constituency_num, completed)
    /\ Loadable(o)
    /\ crashed' = IF o = Crash THEN constituency_num ELSE crashed
    /\ LET data == scrape_constituency(constituency_num, o)
       IN  /\ invoked' = Append(invoked, constituency_num)
           /\ ret' = [ret EXCEPT ![constituency_num] = Len(data)]
           /\ errored' = IF Raised(o) THEN errored \cup {constituency_num}
                         ELSE errored
           /\ constituency_data' = data
           /\ IF data # <<>>
              THEN pc' = "fetched" /\ UNCHANGED <<constituency_num, slept>>
              ELSE /\ pc' = "loop"
                   /\ constituency_num' = AfterEmpty(constituency_num)
                   /\ slept' = slept \cup {constituency_num}
    /\ UNCHANGED <<fsys, mode, start_from, all_data, completed, exit, runs,
                   persisted, failed, flushFailed, master0, empty0, warned,
                   faults, prev, page, summary>>
    /\ driver' = driver_get(driver)
    /\ UNCHANGED bihar

UnitName == constituency_data[1].Constituency_Name

\* lines 261-262 returning
SaveUnit ==
    /\ pc = "fetched"
    /\ dir' = save_constituency_data(dir, constituency_data, constituency_num, UnitName)
    /\ pc' = "unit_saved"
    /\ UNCHANGED <<master, mode, start_from, all_data, completed,
                   constituency_num, constituency_data, exit, hist, aux, driver, bihar>>

\* line 262 raising an I/O error: caught at line 273, next unit, no sleep
SaveUnitFails ==
    /\ pc = "fetched"
    /\ faults < MaxFaults
    /\ faults' = faults + 1
    /\ dir' \in save_constituency_data_failures(dir, constituency_data,
                                                constituency_num, UnitName)
    /\ failed' = failed \cup {constituency_num}
    /\ constituency_num' = constituency_num + 1
    /\ pc' = "loop"
    /\ UNCHANGED <<master, mode, start_from, all_data, completed,
                   constituency_data, exit, runs, invoked, ret, errored,
                   persisted, flushFailed, master0, empty0, warned, prev,
                   page, aux, driver, bihar>>

\* faulty variant: self.all_data = constituency_data
extend_replace(data, more) == more

\* line 265: self.all_data.extend(constituency_data)
extend(data, more) == data \o more

\* line 265
Extend ==
    /\ pc = "unit_saved"
    /\ all_data' = extend(all_data, constituency_data)
    /\ pc' = "extended"
    /\ UNCHANGED <<fsys, mode, start_from, completed, constituency_num,
                   constituency_data, exit, hist, aux, driver, bihar>>

\* lines 266-271 returning: combined file rewritten, sleep, next unit
SaveData ==
    /\ pc = "extended"
    /\ master' = save_data(all_data, master)
    /\ persisted' = persisted \cup {constituency_num}
    /\ slept' = slept \cup {constituency_num}
    /\ constituency_num' = constituency_num + 1
    /\ pc' = "loop"
    /\ UNCHANGED <<dir, mode, start_from, all_data, completed,
                   constituency_data, exit, runs, invoked, ret, errored,
                   failed, flushFailed, master0, empty0, warned, faults, prev,
                   page, crashed, summary, driver>>
    /\ UNCHANGED bihar

\* line 266 raising an I/O error: caught at line 273, next unit, no sleep
SaveDataFails ==
    /\ pc = "extended"
    /\ faults < MaxFaults
    /\ faults' = faults + 1
    /\ master' \in save_data_failures(all_data, master)
    /\ failed' = failed \cup {constituency_num}
    /\ constituency_num' = constituency_num + 1
    /\ pc' = "loop"
    /\ UNCHANGED <<dir, mode, start_from, all_data, completed,
                   constituency_data, exit, runs, invoked, ret, errored,
                   persisted, flushFailed, master0, empty0, warned, prev,
                   page, aux, driver, bihar>>

\* lines 278-282 and 431: the range is exhausted, the process ends
Finish ==
    /\ pc = "loop"
    /\ ~InRange
    /\ pc' = "idle"
    /\ exit' = "normal"
    /\ summary' = generate_summary(all_data)
    /\ driver' = driver_quit(driver)
    /\ UNCHANGED <<fsys, mode, start_from, all_data, completed,
                   constituency_num, constituency_data, hist, crashed, slept>>
    /\ UNCHANGED bihar

\* KeyboardInterrupt anywhere in scrape_all (no `except Exception` catches
\* it): lines 433-438.  An interrupt inside the save_data of line 266 is
\* the case pc = "extended": the handler rewrites the same file.
Interrupt ==
    /\ Running
    /\ mode = "all"
    /\ Handler("interrupt")
    /\ driver' = IF InTry THEN driver_quit(driver) ELSE driver
    /\ UNCHANGED <<dir, mode, start_from, all_data, completed,
                   constituency_num, constituency_data, runs, invoked, ret,
                   errored, persisted, failed, master0, empty0, warned, prev,
                   page, aux>>
    /\ UNCHANGED bihar

\* KeyboardInterrupt inside the to_csv of line 222: the per-unit file is cut
\* short, then the handler of lines 433-438 saves all_data
InterruptInSaveUnit ==
    /\ pc = "fetched"
    /\ faults < MaxFaults
    /\ faults' = faults + 1
    /\ dir' \in save_constituency_data_failures(dir, constituency_data,
                                                constituency_num, UnitName)
    /\ master' = flush(all_data, master)
    /\ pc' = "idle"
    /\ exit' = "interrupt"
    /\ driver' = driver_quit(driver)
    /\ UNCHANGED <<mode, start_from, all_data, completed, constituency_num,
                   constituency_data, runs, invoked, ret, errored, persisted,
                   failed, flushFailed, master0, empty0, warned, prev, page,
                   aux>>
    /\ UNCHANGED bihar

\* ----------------------------------------------- main, --constituency
\* unit numbers a user may pass to --constituency
SingleArgs == 0..(TotalUnits + 1)

\* faulty variant: the range check of line 291 is left out
ValidUnit_any(num) == TRUE

\* line 291
ValidUnit(num) == ~(num < 1 \/ num > TotalUnits)

\* main with --constituency num: scrape_single (lines 284-321) from start to
\* process end.  all_data stays empty and the handlers of main save nothing
\* (`if args.all`), so only the per-unit directory can change: the file is
\* written, or its write raises or is interrupted part-way.
Single(num, o) ==
    /\ pc = "idle"
    /\ runs < MaxRuns
    /\ LET data == IF ValidUnit(num) THEN scrape_constituency(num, o) ELSE <<>>
       IN  /\ \/ /\ dir' = IF data # <<>>
                           THEN save_constituency_data(dir, data, num,
                                                       data[1].Constituency_Name)
                           ELSE dir
                 /\ exit' = IF data # <<>> THEN "single_ok" ELSE "single_failed"
                 /\ failed' = {}
                 /\ UNCHANGED faults
              \/ /\ data # <<>>
                 /\ faults < MaxFaults
                 /\ faults' = faults + 1
                 /\ dir' \in save_constituency_data_failures(dir, data, num,
                                                    data[1].Constituency_Name)
                 /\ exit' = "single_failed"
                 /\ failed' = {num}
           /\ invoked' = IF ValidUnit(num) THEN <<num>> ELSE <<>>
           /\ ret' = IF ValidUnit(num) THEN [NoRet EXCEPT ![num] = Len(data)] ELSE NoRet
           /\ errored' = IF ValidUnit(num) /\ Raised(o) THEN {num} ELSE {}
           /\ constituency_data' = data
    /\ mode' = "single"
    /\ start_from' = 1
    /\ constituency_num' = num
    /\ all_data' = <<>>
    /\ completed' = {}
    /\ runs' = runs + 1
    /\ persisted' = {}
    /\ flushFailed' = FALSE
    /\ master0' = master
    /\ empty0' = (~master.exists /\ DOMAIN dir = {})
    /\ warned' = FALSE
    /\ prev' = IF mode = "none" THEN NoPrev ELSE Journal
    /\ crashed' = 0
    /\ slept' = {}
    /\ summary' = NoSummary
    /\ driver' = IF ValidUnit(num)
                 THEN driver_quit(driver_get(create_driver))
                 ELSE NoDriver
    /\ UNCHANGED <<master, pc, page>>
    /\ UNCHANGED bihar

\* ------------------------------------------------------ specification
\* the steps that do not load a page
Steps ==
    \/ \E sf \in 1..MaxStart : StartAll(sf)
    \/ CheckCompleted
    \/ LoadExisting
    \/ CreateDriver
    \/ CreateDriverFails
    \/ Skip
    \/ SaveUnit
    \/ SaveUnitFails
    \/ Extend
    \/ SaveData
    \/ SaveDataFails
    \/ Finish
    \/ Interrupt
    \/ InterruptInSaveUnit

FetchAny == \E o \in FetchOutcomes : Fetch(o)

SingleAny == \E num \in SingleArgs, o \in Outcomes : Single(num, o)

Next == Steps \/ FetchAny \/ SingleAny

Spec == Init /\ [][Next]_vars

\* the same program against a deterministic Extractor
FetchDet == pc = "loop" /\ InRange /\ Fetch(page[constituency_num])

SingleDet == \E num \in SingleArgs :
                Single(num, IF ValidUnit(num) THEN page[num] ELSE NoRows)

NextDet == Steps \/ FetchDet \/ SingleDet

SpecDet == InitDet /\ [][NextDet]_vars

\* a scrape_all process that nobody interrupts
StepsLive ==
    \/ \E sf \in 1..MaxStart : StartAll(sf)
    \/ CheckCompleted
    \/ LoadExisting
    \/ CreateDriver
    \/ CreateDriverFails
    \/ Skip
    \/ SaveUnit
    \/ SaveUnitFails
    \/ Extend
    \/ SaveData
    \/ SaveDataFails
    \/ Finish

NextLive == StepsLive \/ FetchAny

\* the next statement of the running process: the interpreter runs one
\* thread, every page load returns or raises within its timeout, every write
\* returns or raises
ProcStep ==
    \/ CheckCompleted
    \/ LoadExisting
    \/ CreateDriver
    \/ Skip
    \/ FetchAny
    \/ SaveUnit
    \/ Extend
    \/ SaveData
    \/ Finish

SpecLive == Init /\ [][NextLive]_vars /\ WF_vars(ProcStep)

\* --------------------------------- the Completion Tracker on its own
\* directory entries of the Tracker scenarios
AGIAON == <<"0", "0", "1", "_", "A", "G", "I", "A", "O", "N", ".", "c", "s", "v">>

TARARI == <<"0", "0", "2", "_", "T", "A", "R", "A", "R", "I", ".", "c", "s", "v">>

LONGID == <<"1", "0", "0", "0", "_", "X", "_", "Y", ".", "c", "s", "v">>

NOTANUMBER == <<"n", "o", "t", "a", "n", "u", "m", "b", "e", "r", ".", "c", "s", "v">>

NOTES == <<"n", "o", "t", "e", "s", ".", "t", "x", "t">>

\* names found in a per-unit directory that other hands have also used
ScanNames ==
    { AGIAON,
      TARARI,
      LONGID,
      NOTANUMBER,
      NOTES }

UnreadableFile == [exists |-> TRUE, readable |-> FALSE, rows |-> <<>>]

ScanMasters ==
    {NoFile, UnreadableFile,
     WrittenFile(ToCsv(scrape_constituency(3, [kind |-> "rows", n |-> 1])))}

\* a scrape_all process about to call the Tracker on such a directory
InitScan ==
    /\ dir \in {[f \in S |-> <<>>] : S \in SUBSET ScanNames}
    /\ master \in ScanMasters
    /\ pc = "started"
    /\ mode = "all"
    /\ start_from = 1
    /\ all_data = <<>>
    /\ completed = {}
    /\ constituency_num = 1
    /\ constituency_data = <<>>
    /\ exit = "none"
    /\ runs = 1
    /\ invoked = <<>>
    /\ ret = NoRet
    /\ errored = {}
    /\ persisted = {}
    /\ failed = {}
    /\ flushFailed = FALSE
    /\ master0 = master
    /\ empty0 = (~master.exists /\ DOMAIN dir = {})
    /\ warned = FALSE
    /\ faults = 0
    /\ prev = NoPrev
    /\ crashed = 0
    /\ slept = {}
    /\ summary = NoSummary
    /\ driver = NoDriver
    /\ page = [u \in Units |-> NoRows]
    /\ NoRun2020

NextScan == CheckCompleted

SpecScan == InitScan /\ [][NextScan]_vars

\* ------------------------- save_constituency_data and the Tracker alone
\* characters a constituency name may hold: letters, digits, the characters
\* safe_name replaces, and the separator and the dot of the file name
NameChars == {"A", "7", " ", "/", "\\", "_", "-", "."}

RECURSIVE NamesUpTo(_)
NamesUpTo(n) ==
    IF n = 0 THEN {<<>>}
    ELSE NamesUpTo(n - 1)
         \cup {Append(w, c) : w \in {x \in NamesUpTo(n - 1) : Len(x) = n - 1},
                              c \in NameChars}

\* unit ids of one, two, three and four digits (--total is not bounded)
NameUnits == {1, 9, 10, 99, 100, 243, 999, 1000, 1001}

\* scrape_all has fetched one record of a unit and is about to write its
\* file into an empty directory
InitName ==
    /\ \E num \in NameUnits, name \in NamesUpTo(MaxNameLen) :
          /\ constituency_num = num
          /\ constituency_data =
                <<[Constituency_Number |-> num, Constituency_Name |-> name,
                   Serial_No |-> 1, Percentage |-> StrCell(PctText(num, 1))]>>
          /\ invoked = <<num>>
    /\ dir = <<>>
    /\ master = NoFile
    /\ pc = "fetched"
    /\ mode = "all"
    /\ start_from = 1
    /\ all_data = <<>>
    /\ completed = {}
    /\ exit = "none"
    /\ runs = 1
    /\ ret = NoRet
    /\ errored = {}
    /\ persisted = {}
    /\ failed = {}
    /\ flushFailed = FALSE
    /\ master0 = NoFile
    /\ empty0 = TRUE
    /\ warned = FALSE
    /\ faults = 0
    /\ prev = NoPrev
    /\ crashed = 0
    /\ slept = {}
    /\ summary = NoSummary
    /\ driver = driver_get(create_driver)
    /\ page = [u \in Units |-> NoRows]
    /\ NoRun2020

NextName == SaveUnit

SpecName == InitName /\ [][NextName]_vars

\* --------------------------- BiharConstituencyScraper.run (2020 scraper)
\* values of --limit; 0 stands for an absent limit as well
Limits == (0 - 1)..MaxLimit

\* the ECIScraper program does not run
MainIdle == UNCHANGED <<fsys, proc, hist, aux, driver>>

\* lines 223-225: run(state_url, limit, start_from) is called and creates
\* its driver
Run(lim, sf) ==
    /\ pc2020 = "idle"
    /\ pc2020' = "started"
    /\ limit' = lim
    /\ start_from_2020' = sf
    /\ output0' = output_file
    /\ UNCHANGED <<constituencies, idx, all_const_data, output_file, exit2020,
                   links, attempted, returned, writes>>
    /\ MainIdle

\* line 229 returning
GetLinks(l) ==
    /\ pc2020 = "started"
    /\ constituencies' = l
    /\ links' = l
    /\ pc2020' = "listed"
    /\ UNCHANGED <<limit, start_from_2020, idx, all_const_data, output_file,
                   exit2020, attempted, returned, writes, output0>>
    /\ MainIdle

\* run leaves through its finally clause (lines 282-283) with an exception
Leave(how) ==
    /\ pc2020' = "done"
    /\ exit2020' = how
    /\ UNCHANGED <<limit, start_from_2020, constituencies, idx,
                   all_const_data, links, attempted, returned, output0>>
    /\ MainIdle

\* line 229 raising: the state table did not appear within the wait
GetLinksRaises ==
    /\ pc2020 = "started"
    /\ Leave("raised")
    /\ UNCHANGED <<output_file, writes>>

\* line 232
FilterStep ==
    /\ pc2020 = "listed"
    /\ IF FilterRaises(constituencies)
       THEN /\ pc2020' = "done"
            /\ exit2020' = "raised"
            /\ UNCHANGED constituencies
       ELSE /\ pc2020' = "filtered"
            /\ constituencies' = FilterFrom(constituencies, start_from_2020)
            /\ UNCHANGED exit2020
    /\ UNCHANGED <<limit, start_from_2020, idx, all_const_data, output_file,
                   links, attempted, returned, writes, output0>>
    /\ MainIdle

\* lines 235-242
LimitStep ==
    /\ pc2020 = "filtered"
    /\ constituencies' = apply_limit(constituencies, limit)
    /\ all_const_data' = <<>>
    /\ idx' = 1
    /\ pc2020' = "loop"
    /\ UNCHANGED <<limit, start_from_2020, output_file, exit2020, links,
                   attempted, returned, writes, output0>>
    /\ MainIdle

\* lines 244-258: one turn of the loop
Attempt(o) ==
    /\ pc2020 = "loop"
    /\ idx <= Len(constituencies)
    /\ LET const      == constituencies[idx]
           const_data == scrape_constituency_details(const, o)
       IN  /\ all_const_data' = IF const_data # <<>>
                                THEN all_const_data \o const_data
                                ELSE all_const_data
           /\ attempted' = Append(attempted, const.url)
           /\ returned' = Append(returned, IF o.raised THEN 0 - 1 ELSE o.n)
    /\ idx' = idx + 1
    /\ UNCHANGED <<pc2020, limit, start_from_2020, constituencies,
                   output_file, exit2020, links, writes, output0>>
    /\ MainIdle

\* the loop has ended and lines 261-266 reach the to_csv
Saving ==
    /\ pc2020 = "loop"
    /\ idx > Len(constituencies)
    /\ all_const_data # <<>>
    /\ flatten_data_for_csv(all_const_data) # <<>>

\* lines 261-279, the to_csv of line 266 returning when it is reached
Save ==
    /\ pc2020 = "loop"
    /\ idx > Len(constituencies)
    /\ IF Saving
       THEN /\ output_file' = WrittenFile(flatten_data_for_csv(all_const_data))
            /\ writes' = writes + 1
       ELSE UNCHANGED <<output_file, writes>>
    /\ pc2020' = "done"
    /\ exit2020' = "returned"
    /\ UNCHANGED <<limit, start_from_2020, constituencies, idx,
                   all_const_data, links, attempted, returned, output0>>
    /\ MainIdle

\* the to_csv of line 266 raising or interrupted part-way
SaveFails ==
    /\ Saving
    /\ output_file' \in TornWrites(output_file, flatten_data_for_csv(all_const_data))
    /\ writes' = writes + 1
    /\ Leave("raised")

\* KeyboardInterrupt before line 266 is reached
Interrupt2020 ==
    /\ pc2020 \in {"started", "listed", "filtered", "loop"}
    /\ Leave("interrupt")
    /\ UNCHANGED <<output_file, writes>>

Init2020 ==
    /\ InitProgram
    /\ page = [u \in Units |-> NoRows]
    /\ output_file \in {NoFile, OldOutput}
    /\ InitBihar

Next2020 ==
    \/ \E lim \in Limits, sf \in 1..MaxStart : Run(lim, sf)
    \/ \E l \in Links : GetLinks(l)
    \/ GetLinksRaises
    \/ FilterStep
    \/ LimitStep
    \/ \E o \in DetailOutcomes : Attempt(o)
    \/ Save
    \/ SaveFails
    \/ Interrupt2020

Spec2020 == Init2020 /\ [][Next2020]_vars

\* ============================================================ claims
Range(seq) == {seq[i] : i \in 1..Len(seq)}

\* a record is identified by its unit and its serial number
RowKeys(rows) == {<<rows[i].Constituency_Number, rows[i].Serial_No>> : i \in 1..Len(rows)}

NoDupRows(rows) ==
    \A i, j \in 1..Len(rows) :
        i # j => <<rows[i].Constituency_Number, rows[i].Serial_No>>
                 # <<rows[j].Constituency_Number, rows[j].Serial_No>>

\* the records the Extractor returned for unit u in this run
Fetched(u) == scrape_constituency(u, [kind |-> "rows", n |-> ret[u]])

RECURSIVE FetchedUpTo(_)
FetchedUpTo(k) == IF k = 0 THEN <<>> ELSE FetchedUpTo(k - 1) \o Fetched(k)

\* the Completion Sets a process started now could compute
CompletionSets ==
    {get_completed_constituencies(l, master).completed : l \in Listings(DOMAIN dir)}

\* Fetch is enabled: the Extractor is about to be invoked
AboutToFetch ==
    mode = "all" /\ pc = "loop" /\ InRange
    /\ ~AlreadyCompleted(constituency_num, completed)

AllEnded(how) == pc = "idle" /\ mode = "all" /\ exit = how

\* C1 (Skip correctness): no unit of the Completion Set computed at the start
\* of a scrape_all run (`completed`) is ever passed to the Extractor in that
\* run.
C1_SkipCorrectness ==
    mode = "all" => Range(invoked) \cap completed = {}

\* a run that passed over a completed unit and then fetched a later one
C1_Witness ==
    /\ mode = "all"
    /\ \E u \in completed, v \in Range(invoked) : start_from <= u /\ u < v

\* C2 (Partial-progress durability): a run over empty artifacts from unit 1
\* that fetched and persisted exactly the units 1..k and was then interrupted
\* leaves exactly the records of 1..k in the combined file, and the first
\* unit the restarted run passes to the Extractor is k+1.
C2_PartialProgress ==
    /\ (AllEnded("interrupt") /\ Journal.resumeAt > 0)
          => master.rows = ToCsv(FetchedUpTo(Journal.resumeAt - 1))
    /\ (mode = "all" /\ prev.resumeAt > 0 /\ start_from = 1)
          => /\ invoked # <<>> => invoked[1] = prev.resumeAt
             /\ (pc \in {"loop", "idle"} /\ constituency_num > prev.resumeAt
                 /\ exit \in {"none", "normal"} /\ prev.resumeAt <= TotalUnits)
                   => invoked # <<>>

\* the restart of a run interrupted after two units has fetched unit 3
C2_Witness ==
    /\ mode = "all"
    /\ prev.resumeAt = 3
    /\ invoked = <<3>>
    /\ Len(master0.rows) >= 2

\* C3 (Resume idempotence): against a deterministic Extractor, a second
\* complete run over the same range, straight after a complete run, leaves
\* the combined file and the Completion Set as the first run left them, and
\* no record appears twice.
C3_ResumeIdempotence ==
    (AllEnded("normal") /\ NoWriteFault /\ prev.clean /\ prev.start_from = start_from)
        => /\ master = master0
           /\ \A cs \in CompletionSets : cs = completed
           /\ NoDupRows(master.rows)

\* a second run that skipped a unit the first run had persisted and fetched
\* again a unit that had returned nothing
C3_Witness ==
    /\ AllEnded("normal") /\ NoWriteFault /\ prev.clean /\ prev.start_from = start_from
    /\ master.rows # <<>>
    /\ invoked # <<>>
    /\ \E u \in completed : start_from <= u

\* C4 (Failure isolation): when no write fails, a run in which the Extractor
\* fails for some units goes on to every later unit of the range, and the
\* Completion Set after the run is the one at its start plus exactly the
\* units that returned records (with empty artifacts: exactly those units).
C4_FailureIsolation ==
    (AllEnded("normal") /\ NoWriteFault)
        => /\ \A u \in start_from..TotalUnits : u \in completed \/ u \in Range(invoked)
           /\ \A cs \in CompletionSets : cs = completed \cup Got

\* over empty artifacts: unit 1 succeeds, unit 2 times out or errs, the last
\* unit succeeds
C4_Witness ==
    /\ AllEnded("normal") /\ NoWriteFault
    /\ empty0
    /\ ret[1] > 0 /\ 2 \in errored /\ ret[TotalUnits] > 0
    /\ \A cs \in CompletionSets : cs = Units \ {2}

\* C5 (Interruption flush): when a scrape_all process has ended by
\* KeyboardInterrupt and the handler's save_data did not itself raise, the
\* combined file holds exactly the records of all_data (if there are any).
C5_InterruptionFlush ==
    (AllEnded("interrupt") /\ ~flushFailed /\ all_data # <<>>)
        => master = WrittenFile(ToCsv(all_data))

\* interrupted between all_data.extend and save_data: only the handler
\* wrote the last unit's records
C5_Witness ==
    /\ AllEnded("interrupt") /\ ~flushFailed
    /\ \E u \in Got \ (persisted \cup failed) :
          \E i \in 1..Len(all_data) : all_data[i].Constituency_Number = u

\* C6 (No duplication across restarts): the combined file never holds a
\* record twice.
C6_NoDuplication == NoDupRows(master.rows)

\* a second run that loaded the records of the first and added a unit
C6_Witness ==
    /\ mode = "all" /\ runs = 2
    /\ master0.readable /\ master0.rows # <<>>
    /\ Len(master.rows) > Len(master0.rows)
    /\ persisted # {}

\* C7 (No loss across restarts), as claimed, for the runs none of whose own
\* writes fails: every record in the combined file when a scrape_all run
\* starts, readable or not, is in it at every later point of the run and
\* after it.
C7_NoLoss ==
    (mode = "all" /\ NoWriteFault)
        => RowKeys(master0.rows) \subseteq RowKeys(master.rows)

\* C8 (Persistence failure keeps the unit incomplete), as claimed: a unit one
\* of whose writes raised in a scrape_all run is not in the Completion Set
\* the next run computes.
C8_FailedUnitIncomplete ==
    (mode = "all" /\ pc = "checked") => prev.failed \cap completed = {}

\* a unit's records are on disk: its file holds them all, the combined file
\* holds them, and every restart would count the unit completed
OnDisk(u) ==
    /\ \E f \in DOMAIN dir : dir[f] = ToCsv(Fetched(u))
    /\ RowKeys(ToCsv(Fetched(u))) \subseteq RowKeys(master.rows)
    /\ \A cs \in CompletionSets : u \in cs

WellFormedName(f) == EndsWith(f, CsvExt) /\ PyInt(SplitFirst(f, "_")).ok

\* C10 (Filename parsing), as claimed: whatever the listing order, the
\* Tracker returns the unit id of every well-formed file of the directory.
C10_FilenameParsing ==
    pc = "checked" =>
        \A f \in DOMAIN dir :
            WellFormedName(f) => PyInt(SplitFirst(f, "_")).val \in completed

\* unit ids of the well-formed file names of the per-unit directory
FileUnits ==
    {PyInt(SplitFirst(f, "_")).val : f \in {g \in DOMAIN dir : WellFormedName(g)}}

\* C11 (Completion Tracker union), as claimed: whatever the listing order,
\* the Tracker returns exactly the unit ids of the per-unit file names united
\* with the distinct Constituency_Number values of the combined file, and a
\* missing directory and a missing combined file contribute nothing and
\* raise nothing.
C11_TrackerUnion ==
    pc = "checked" =>
        /\ completed = FileUnits \cup MasterUnits(master).completed
        /\ (DOMAIN dir = {} /\ ~master.exists) => (completed = {} /\ ~warned)

\* records the Extractor returned in this run for the units of S, counted
RECURSIVE SumRet(_)
SumRet(S) == IF S = {} THEN 0
             ELSE LET u == CHOOSE v \in S : TRUE
                  IN  ret[u] + SumRet(S \ {u})

C13_FatalTerminates ==
    (mode = "all" /\ crashed # 0)
        => /\ invoked[Len(invoked)] = crashed
           /\ pc = "idle" => exit \in {"fatal", "interrupt"}
           /\ (AllEnded("fatal") /\ ~flushFailed /\ all_data # <<>>)
                 => master = WrittenFile(ToCsv(all_data))

\* exit status of the process: main returns after either handler (no
\* sys.exit anywhere), so the status is 0 unless the save_data of a handler
\* raised and the exception left main
ExitStatus == IF flushFailed THEN 1 ELSE 0

\* C14 (Exit status), as claimed: a scrape_all process that ended through the
\* Exception handler of main exits with a non-zero status, a process that
\* ran to its end exits with status zero.
C14_ExitStatus ==
    /\ AllEnded("fatal") => ExitStatus # 0
    /\ AllEnded("normal") => ExitStatus = 0

\* the save_data call of line 266 has returned for the unit fetched last
AfterSaveData ==
    /\ mode = "all"
    /\ pc = "loop" \/ AllEnded("normal")
    /\ invoked # <<>>
    /\ invoked[Len(invoked)] \in persisted

\* the save_data call of a handler of main has returned with something to
\* save
AfterFlush ==
    /\ AllEnded("interrupt") \/ AllEnded("fatal")
    /\ ~flushFailed
    /\ all_data # <<>>

\* C15 (Combined persist is an idempotent full overwrite): after every
\* save_data call that returned with a non-empty all_data, the combined file
\* holds exactly the records of all_data, whatever it held before, and one
\* more save_data call would leave the file as it is.
C15_IdempotentOverwrite ==
    (AfterSaveData \/ AfterFlush)
        => /\ master = WrittenFile(ToCsv(all_data))
           /\ Len(master.rows) = Len(all_data)
           /\ save_data(all_data, master) = master

\* save_data has returned in a run that found a combined file with rows,
\* some of them of units not in all_data (the file could not be read)
C15_Witness ==
    /\ AfterSaveData
    /\ master0.rows # <<>>
    /\ ~master0.readable
    /\ Len(master.rows) > 0

\* C16 (The Completion Tracker is read-only): the call of
\* get_completed_constituencies changes neither the per-unit files, nor the
\* combined file, nor all_data.
C16_TrackerReadOnly ==
    [][(pc = "started" /\ pc' = "checked") => UNCHANGED <<dir, master, all_data>>]_vars

\* the Tracker has run over a per-unit directory and a combined file that
\* both hold units
C16_Witness ==
    /\ pc = "checked"
    /\ DOMAIN dir # {}
    /\ master.exists /\ master.rows # <<>>
    /\ completed # {}
    /\ all_data = <<>>

\* C17 (Delay discipline), as claimed: whenever scrape_all is at the head of
\* its loop, the delay of line 271 has been applied after every Extractor
\* invocation of the run, whatever the invocation returned and whether or
\* not the writes that followed succeeded, and after nothing else (a skipped
\* unit is not followed by a delay).
C17_DelayDiscipline ==
    (mode = "all" /\ pc = "loop") => slept = Range(invoked)

\* C18 (Ascending single pass): the units passed to the Extractor in one
\* scrape_all run are in strictly increasing order and all lie in
\* [start_from, total_constituencies]; so no unit is fetched twice and a
\* failed unit is not tried again in the run.
C18_AscendingSinglePass ==
    mode = "all"
        => /\ \A i \in 1..Len(invoked) :
                start_from <= invoked[i] /\ invoked[i] <= TotalUnits
           /\ \A i, j \in 1..Len(invoked) : i < j => invoked[i] < invoked[j]

\* a run from a start_from above 1 whose first unit failed and which went
\* on to a later unit
C18_Witness ==
    /\ mode = "all"
    /\ start_from > 1
    /\ Len(invoked) >= 2
    /\ invoked[1] \in errored
    /\ ret[invoked[Len(invoked)]] > 0

\* every unit of the range was skipped, persisted, or attempted and failed
\* (the Extractor returned nothing, or a write raised)
Covered ==
    \A u \in start_from..TotalUnits :
        \/ u \in completed /\ u \notin Range(invoked)
        \/ u \in persisted
        \/ u \in Range(invoked) /\ ret[u] = 0
        \/ u \in failed

\* C19 (Termination): with no interrupt, every scrape_all run that has
\* entered its loop reaches its end, and there every unit of
\* [start_from, total_constituencies] has been skipped, persisted, or
\* attempted and failed, whatever the Extractor and the writes did.
C19_Termination ==
    /\ (mode = "all" /\ pc = "loop") ~> (pc = "idle")
    /\ [](AllEnded("normal") => Covered)

\* the end of a run that skipped a unit, persisted a unit and saw a unit fail
C19_Witness ==
    /\ AllEnded("normal") /\ Covered
    /\ \E u \in completed : start_from <= u
    /\ persisted # {}
    /\ errored \cup failed # {}

\* the units of the range of the running scrape_all
InRangeUnits == start_from..TotalUnits

\* C20 (Retry on the next run): a unit for which the Extractor failed or
\* returned nothing in a scrape_all run is in no Completion Set computed
\* after that run; the Tracker of a following scrape_all run over the same
\* range does not report it, and that run, when it reaches its end, has
\* passed to the Extractor exactly the units of the range that were not
\* completed (the failed and empty ones among them) and no completed unit.
C20_RetryNextRun ==
    /\ (mode = "all" /\ pc = "idle")
          => \A u \in Units : ret[u] = 0 => \A cs \in CompletionSets : u \notin cs
    /\ (mode = "all" /\ pc # "started" /\ prev.start_from = start_from)
          => prev.zero \cap completed = {}
    /\ (AllEnded("normal") /\ prev.start_from = start_from)
          => /\ Range(invoked) = InRangeUnits \ completed
             /\ (prev.zero \cap InRangeUnits) \subseteq Range(invoked)

\* a second complete run over the same range that skipped the unit the first
\* run had persisted and fetched again, this time with records, a unit that
\* had failed or been empty
C20_Witness ==
    /\ AllEnded("normal")
    /\ prev.start_from = start_from
    /\ prev.zero \cap Got # {}
    /\ completed \cap InRangeUnits # {}
    /\ Range(invoked) = InRangeUnits \ completed

\* C21 (Per-unit file name round trip): whatever the unit id and the unit
\* name, once save_constituency_data has written the unit's file into an
\* empty directory, the Tracker reads the directory back as exactly that unit
\* id, without a warning.
C21_NameRoundTrip ==
    (pc = "unit_saved" /\ master0 = NoFile /\ empty0)
        => /\ Cardinality(DOMAIN dir) = 1
           /\ \A l \in Listings(DOMAIN dir) :
                 get_completed_constituencies(l, master)
                    = [completed |-> {constituency_num}, warned |-> FALSE]

\* the file of a four-digit unit whose name holds an underscore and a
\* character that safe_name replaces
C21_Witness ==
    /\ pc = "unit_saved"
    /\ constituency_num = 1000
    /\ UnitName = <<"_", "/">>
    /\ \E f \in DOMAIN dir : f = <<"1", "0", "0", "0", "_", "_", "-", ".", "c", "s", "v">>

\* C22 (The combined artifact is never partially written), as claimed: every
\* step of the program leaves the combined file as it was or leaves in it
\* exactly the complete records of all_data.
C22_NeverPartial ==
    [][master' = master \/ master' = WrittenFile(ToCsv(all_data'))]_vars

\* C23 (Artifact consistency), as claimed, for the scrape_all runs over the
\* whole range that reach their end with no write failure: whatever
\* scrape_single and scrape_all runs came before, once the run has ended
\* every unit that has a per-unit file also has records in the combined
\* file.
C23_ArtifactConsistency ==
    (AllEnded("normal") /\ NoWriteFault /\ start_from = 1)
        => FileUnits \subseteq MasterUnits(master).completed

\* positions of the browser's call log that hold the call `what`
Calls(what) == {i \in 1..Len(driver) : driver[i] = what}

\* C24 (Browser release): a browser that scrape_all or scrape_single has
\* created is created once; while the call is running it has not been quit
\* and it has loaded one page per Extractor invocation; once the call has
\* ended, however it ended, driver.quit() has run exactly once and is the
\* last call made on the browser, so that no page load follows it.  Without
\* a browser there is no Extractor invocation.
C24_BrowserRelease ==
    /\ Cardinality(Calls("get")) = Len(invoked)
    /\ driver = NoDriver => ~InTry
    /\ driver # NoDriver =>
          /\ Calls("create") = {1}
          /\ IF pc = "idle"
             THEN Calls("quit") = {Len(driver)}
             ELSE InTry /\ Calls("quit") = {}

\* a scrape_all whose Extractor raised for one unit, one of whose writes
\* raised for another, and which was then interrupted: the browser was quit
\* after its last page load
C24_Witness ==
    /\ pc = "idle"
    /\ mode = "all"
    /\ exit = "interrupt"
    /\ errored # {}
    /\ failed # {}
    /\ Len(driver) >= 4
    /\ driver[Len(driver)] = "quit"
    /\ driver[Len(driver) - 1] = "get"

\* a step that is a whole scrape_single process
SingleStep == pc = "idle" /\ mode' = "single" /\ runs' = runs + 1

\* the per-unit files the step created or rewrote
Rewritten == {f \in DOMAIN dir' : f \notin DOMAIN dir \/ dir'[f] # dir[f]}

\* the files of the per-unit directory whose name parses to unit num
FilesOf(d, num) ==
    {f \in DOMAIN d : WellFormedName(f) /\ PyInt(SplitFirst(f, "_")).val = num}

\* C25 (scrape_single range check and frame), as claimed, its sentence on the
\* result for a valid id: scrape_single returns True exactly when the
\* Extractor returned at least one record.
C25_SingleFrame_Claimed ==
    [][(SingleStep /\ constituency_num' \in Units)
          => (exit' = "single_ok" <=> Len(constituency_data') > 0)]_vars

\* C25, amended: scrape_single called with an id outside
\* [1, total_constituencies] returns False without creating a driver,
\* invoking the Extractor or writing any artifact; called with a valid id it
\* invokes the Extractor once for that id, returns True exactly when the
\* Extractor returned at least one record and the per-unit write returned
\* (then the unit's file holds exactly those records), writes no per-unit
\* file but that unit's, removes none, and leaves the combined artifact
\* unchanged.
C25_SingleFrame ==
    [][SingleStep =>
         LET num  == constituency_num'
             data == constituency_data'
         IN  /\ master' = master
             /\ DOMAIN dir \subseteq DOMAIN dir'
             /\ num \notin Units =>
                   /\ exit' = "single_failed"
                   /\ driver' = NoDriver
                   /\ invoked' = <<>>
                   /\ dir' = dir
             /\ num \in Units =>
                   /\ invoked' = <<num>>
                   /\ exit' \in {"single_ok", "single_failed"}
                   /\ exit' = "single_ok" <=> (Len(data) > 0 /\ failed' = {})
                   /\ exit' = "single_ok" =>
                         \E f \in FilesOf(dir', num) : dir'[f] = ToCsv(data)
                   /\ Rewritten \subseteq FilesOf(dir', num)
                   /\ Cardinality(Rewritten) <= 1
                   /\ Len(data) = 0 => dir' = dir]_vars

\* a scrape_single of a valid unit that returned True next to a combined
\* file and the per-unit file of another unit, both left as a scrape_all had
\* written them
C25_Witness ==
    /\ mode = "single"
    /\ exit = "single_ok"
    /\ master.exists
    /\ master = master0
    /\ FilesOf(dir, constituency_num) # {}
    /\ \E u \in Units \ {constituency_num} : FilesOf(dir, u) # {}

\* the constituencies run selects from what get_constituency_links returned
Selected == apply_limit(FilterFrom(links, start_from_2020), limit)

\* one row per candidate of the calls i.. of scrape_constituency_details,
\* from what each call returned
RECURSIVE CandidateRows(_)
CandidateRows(i) ==
    IF i > Len(attempted) THEN <<>>
    ELSE [k \in 1..(IF returned[i] > 0 THEN returned[i] ELSE 0) |->
             [Constituency_Number |-> links[attempted[i]].number, Position |-> k]]
         \o CandidateRows(i + 1)

\* C26 (2020 scraper all-at-end persistence): run calls to_csv at most once;
\* the constituencies it attempts are, in listing order and once each, those
\* whose number is at least start_from, cut to limit; the to_csv comes only
\* after all of them have been attempted; until then, and after a run that
\* an exception or an interrupt ended before it, the output file is what it
\* was when run was called; a file the to_csv has written holds exactly one
\* row per candidate of each constituency that returned at least one
\* candidate, and a run that collected no candidate writes nothing.
C26_AllAtEnd ==
    /\ writes <= 1
    /\ writes = 0 => output_file = output0
    /\ Len(attempted) <= Len(Selected)
    /\ \A i \in 1..Len(attempted) : attempted[i] = Selected[i].url
    /\ writes = 1 =>
          /\ pc2020 = "done"
          /\ Len(attempted) = Len(Selected)
          /\ CandidateRows(1) # <<>>
    /\ (writes = 1 /\ exit2020 = "returned") =>
          output_file = WrittenFile(CandidateRows(1))
    /\ (writes = 0 /\ exit2020 = "returned") => CandidateRows(1) = <<>>

\* a run from number 2 limited to one constituency over a table of three
\* rows, the first numbered 1: the second row alone was attempted, it
\* returned two candidates and their two rows replaced an older file
C26_Witness ==
    /\ pc2020 = "done"
    /\ exit2020 = "returned"
    /\ Len(links) = 3
    /\ start_from_2020 = 2
    /\ limit = 1
    /\ attempted = <<2>>
    /\ returned = <<2>>
    /\ output0 = OldOutput
    /\ Len(output_file.rows) = 2
    /\ writes = 1

====
